---- MODULE Spec2Model ----
(***************************************************************************)
(* dbcrossbar: the BigQuery type translation (bigquery_shared/data_type.rs), *)
(* the Redshift write_local_data operation and the PostgreSQL count          *)
(* operation, as state machines.                                             *)
(***************************************************************************)
EXTENDS Integers, Sequences, FiniteSets, TLC

VARIABLES
    \* --- type translation: one conversion pipeline on one input ---
    data_type,      \* the portable DataType handed to for_data_type
    usage,          \* the Usage handed to for_data_type
    bq,             \* Result<BqDataType>: for_data_type's result, or a native input
    portable,       \* Result<DataType>: the result of BqDataType::to_data_type
    printed,        \* the Display output of the BqDataType
    json_safe,      \* the result of BqDataType::is_json_safe
    done,           \* the operations already applied
    can_import,     \* Result<bool>: DataType::bigquery_can_import_from_csv
    column,         \* the schema column handed to to_bq_data_type, if any
    \* --- Redshift write_local_data_helper ---
    rpc,            \* position in write_local_data_helper
    rin,            \* its inputs and the environment's answers
    shared_args_v,  \* TRUE once shared_args.verify(features) has succeeded
    dest_args_v,    \* TRUE once dest_args.verify(features) has succeeded
    s3_invoked,     \* TRUE once s3_temp.write_local_data has been called
    started,        \* upload completion futures that have been started
    finished,       \* upload completion futures that have finished
    remote_calls,   \* number of calls of dest.write_remote_data
    staged,         \* the objects that lie under the staging location
    rresult,        \* what the helper returned
    \* --- PostgreSQL count_helper ---
    cpc,            \* position in count_helper
    cin,            \* its inputs and the environment's answers
    c_shared_v,     \* shared_args verified
    c_source_v,     \* source_args verified
    sql,            \* the generated count SQL, <<>> before it exists
    conn,           \* TRUE once connect() has been called
    prepared,       \* TRUE once conn.prepare has been called
    executed,       \* TRUE once conn.query has been called
    cresult         \* what count_helper returned

typeVars == <<data_type, usage, bq, portable, printed, json_safe, done,
              can_import, column>>
redshiftVars == <<rpc, rin, shared_args_v, dest_args_v, s3_invoked, started,
                  finished, remote_calls, staged, rresult>>
countVars == <<cpc, cin, c_shared_v, c_source_v, sql, conn, prepared,
               executed, cresult>>
vars == <<typeVars, redshiftVars, countVars>>

-----------------------------------------------------------------------------
(* Bounds of the model. *)

\* Deepest nesting of portable Array types drawn as inputs.
MaxDepth == 3
\* Most fields of a struct drawn as a native input.
MaxFields == 2
\* Largest --max-streams and most CsvStreams handed to write_local_data.
MaxStreams == 2
MaxInputs == 4
\* Most rows the count query answers with.
MaxRows == 2
\* Most nested fields of a schema column drawn as an input.
MaxColumns == 2

-----------------------------------------------------------------------------
(* Result<T> and Option<T>. *)

Ok(v) == [ok |-> TRUE, val |-> v]
Err(m) == [ok |-> FALSE, err |-> m]
None == <<>>
Some(x) == <<x>>

-----------------------------------------------------------------------------
(* The portable DataType, as the match of BqNonArrayDataType::for_data_type *)
(* enumerates it.                                                           *)

DT(tag) == [tag |-> tag]
DataType_Array(elem) == [tag |-> "Array", elem |-> elem]
DataType_GeoJson(srid) == [tag |-> "GeoJson", srid |-> srid]
DataType_Other(name) == [tag |-> "Other", name |-> name]
DataType_Json == DT("Json")

\* Srid::wgs84(), and one Srid that is not it.
wgs84 == 4326
Srids == {wgs84, 3857}

ScalarTags ==
    {"Bool", "Date", "Decimal", "Float32", "Float64", "Int16", "Int32",
     "Int64", "Json", "Text", "TimestampWithoutTimeZone",
     "TimestampWithTimeZone", "Uuid"}

LeafDataTypes ==
    {DT(t) : t \in ScalarTags}
        \cup {DataType_GeoJson(srid) : srid \in Srids}
        \cup {DataType_Other("citext")}

RECURSIVE DataTypesUpTo(_)
DataTypesUpTo(d) ==
    IF d = 0 THEN LeafDataTypes
    ELSE LeafDataTypes \cup {DataType_Array(e) : e \in DataTypesUpTo(d - 1)}

DataTypes == DataTypesUpTo(MaxDepth)

Usage == {"CsvLoad", "FinalTable"}

-----------------------------------------------------------------------------
(* BqDataType, BqNonArrayDataType and BqStructField. *)

BqArray(ty) == [kind |-> "Array", ty |-> ty]
BqNonArray(ty) == [kind |-> "NonArray", ty |-> ty]
NA(tag) == [tag |-> tag]
BqStruct(fields) == [tag |-> "Struct", fields |-> fields]
BqStructField(name, ty) == [name |-> name, ty |-> ty]

BqLeafTags ==
    {"Bool", "Bytes", "Date", "Datetime", "Float64", "Geography", "Int64",
     "Numeric", "String", "Time", "Timestamp"}

FieldNames == {None, Some("x"), Some("y")}

\* Structs that occur as the type of a field of an input struct: no field,
\* a named field, an anonymous field, a repeated name, a nested unsafe struct.
InnerStructs ==
    {BqStruct(<<>>),
     BqStruct(<<BqStructField(Some("x"), BqNonArray(NA("Int64")))>>),
     BqStruct(<<BqStructField(None, BqNonArray(NA("Int64")))>>),
     BqStruct(<<BqStructField(Some("x"), BqNonArray(NA("Int64"))),
                BqStructField(Some("x"), BqNonArray(NA("String")))>>),
     BqStruct(<<BqStructField(Some("x"),
                  BqNonArray(BqStruct(<<BqStructField(None, BqArray(NA("Int64")))>>)))>>)}

BqFieldTypes ==
    {BqNonArray(NA("Int64")), BqNonArray(NA("Bytes")), BqArray(NA("Time"))}
        \cup {BqNonArray(s) : s \in InnerStructs}
        \cup {BqArray(BqStruct(<<BqStructField(None, BqNonArray(NA("Int64")))>>))}

BqFields == {BqStructField(n, t) : n \in FieldNames, t \in BqFieldTypes}

BqFieldLists == UNION {[1..n -> BqFields] : n \in 0..MaxFields}

BqNonArrayDataTypes ==
    {NA(t) : t \in BqLeafTags} \cup {BqStruct(fs) : fs \in BqFieldLists}

BqDataTypes ==
    {BqArray(t) : t \in BqNonArrayDataTypes}
        \cup {BqNonArray(t) : t \in BqNonArrayDataTypes}

-----------------------------------------------------------------------------
(* fmt::Display for BqDataType, BqNonArrayDataType and BqStructField. *)

\* Separator::display: nothing before the first item, the separator after.
Separator_display(sep, i) == IF i = 1 THEN "" ELSE sep

RECURSIVE BqDataType_fmt(_)
RECURSIVE BqNonArrayDataType_fmt(_)
RECURSIVE BqStructField_fmt(_)
RECURSIVE fmt_fields(_, _)

BqDataType_fmt(t) ==
    IF t.kind = "Array" THEN "ARRAY<" \o BqNonArrayDataType_fmt(t.ty) \o ">"
    ELSE BqNonArrayDataType_fmt(t.ty)

fmt_fields(fields, i) ==
    IF i > Len(fields) THEN ""
    ELSE Separator_display(",", i) \o BqStructField_fmt(fields[i])
            \o fmt_fields(fields, i + 1)

BqNonArrayDataType_fmt(ty) ==
    CASE ty.tag = "Bool" -> "BOOL"
      [] ty.tag = "Bytes" -> "BYTES"
      [] ty.tag = "Date" -> "DATE"
      [] ty.tag = "Datetime" -> "DATETIME"
      [] ty.tag = "Float64" -> "FLOAT64"
      [] ty.tag = "Geography" -> "GEOGRAPHY"
      [] ty.tag = "Int64" -> "INT64"
      [] ty.tag = "Numeric" -> "NUMERIC"
      [] ty.tag = "String" -> "STRING"
      [] ty.tag = "Struct" -> "STRUCT<" \o fmt_fields(ty.fields, 1) \o ">"
      [] ty.tag = "Time" -> "TIME"
      [] ty.tag = "Timestamp" -> "TIMESTAMP"

BqStructField_fmt(field) ==
    IF field.name # None THEN field.name[1] \o " " \o BqDataType_fmt(field.ty)
    ELSE BqDataType_fmt(field.ty)

-----------------------------------------------------------------------------
(* BqNonArrayDataType::for_data_type and BqDataType::for_data_type. *)

\* The arms of the match for the types that are not arrays.
scalar_for_data_type(dt) ==
    CASE dt.tag = "Bool" -> NA("Bool")
      [] dt.tag = "Date" -> NA("Date")
      [] dt.tag = "Decimal" -> NA("Numeric")
      [] dt.tag = "Float32" -> NA("Float64")
      [] dt.tag = "Float64" -> NA("Float64")
      [] dt.tag = "GeoJson" /\ dt.srid = wgs84 -> NA("Geography")
      [] dt.tag = "GeoJson" /\ dt.srid # wgs84 -> NA("String")
      [] dt.tag = "Int16" -> NA("Int64")
      [] dt.tag = "Int32" -> NA("Int64")
      [] dt.tag = "Int64" -> NA("Int64")
      [] dt.tag = "Json" -> NA("String")
      [] dt.tag = "Other" -> NA("String")
      [] dt.tag = "Text" -> NA("String")
      [] dt.tag = "TimestampWithoutTimeZone" -> NA("Datetime")
      [] dt.tag = "TimestampWithTimeZone" -> NA("Timestamp")
      [] dt.tag = "Uuid" -> NA("String")

\* A slip: the wrapping field is given a name.
nested_array_struct_named(bq_nested) ==
    BqStruct(<<BqStructField(Some("array"), BqArray(bq_nested))>>)

\* A slip: the nested array is not wrapped in a struct.
nested_array_unwrapped(bq_nested) == BqArray(bq_nested)

\* The struct that wraps a nested array: one field, without a name.
nested_array_struct(bq_nested) ==
    BqStruct(<<BqStructField(None, BqArray(bq_nested))>>)

RECURSIVE BqNonArrayDataType_for_data_type(_, _)
BqNonArrayDataType_for_data_type(dt, u) ==
    IF dt.tag = "Array" /\ u = "CsvLoad"
    THEN Err("should never encounter nested arrays in CSV mode")
    ELSE IF dt.tag = "Array"
    THEN LET bq_nested == BqNonArrayDataType_for_data_type(dt.elem, u)
         IN  IF bq_nested.ok THEN Ok(nested_array_struct(bq_nested.val))
             ELSE bq_nested
    ELSE Ok(scalar_for_data_type(dt))

\* A slip: the array survives into the CSV load type.
csv_load_array_kept == BqArray(NA("String"))

\* What a top-level array becomes for a CSV load.
csv_load_array == BqNonArray(NA("String"))

\* A slip: the check for arrays of JSON is left out.
nested_is_json_unchecked(nested) == FALSE

\* if let DataType::Json = nested.as_ref()
nested_is_json(nested) == nested = DataType_Json

\* A slip: the arm for arrays under CsvLoad is missing.
for_data_type_without_csv_arm(dt, u) ==
    IF dt.tag = "Array"
    THEN IF nested_is_json(dt.elem)
         THEN Err("cannot represent arrays of JSON in BigQuery yet")
         ELSE LET bq_nested == BqNonArrayDataType_for_data_type(dt.elem, u)
              IN  IF bq_nested.ok THEN Ok(BqArray(bq_nested.val)) ELSE bq_nested
    ELSE LET bq_other == BqNonArrayDataType_for_data_type(dt, u)
         IN  IF bq_other.ok THEN Ok(BqNonArray(bq_other.val)) ELSE bq_other

BqDataType_for_data_type(dt, u) ==
    IF dt.tag = "Array" /\ u = "CsvLoad" THEN Ok(csv_load_array)
    ELSE IF dt.tag = "Array"
    THEN IF nested_is_json(dt.elem)
         THEN Err("cannot represent arrays of JSON in BigQuery yet")
         ELSE LET bq_nested == BqNonArrayDataType_for_data_type(dt.elem, u)
              IN  IF bq_nested.ok THEN Ok(BqArray(bq_nested.val)) ELSE bq_nested
    ELSE LET bq_other == BqNonArrayDataType_for_data_type(dt, u)
         IN  IF bq_other.ok THEN Ok(BqNonArray(bq_other.val)) ELSE bq_other

-----------------------------------------------------------------------------
(* BqNonArrayDataType::to_data_type and BqDataType::to_data_type. *)

BqNonArrayDataType_to_data_type(ty) ==
    CASE ty.tag = "Bool" -> Ok(DT("Bool"))
      [] ty.tag = "Date" -> Ok(DT("Date"))
      [] ty.tag = "Numeric" -> Ok(DT("Decimal"))
      [] ty.tag = "Float64" -> Ok(DT("Float64"))
      [] ty.tag = "Geography" -> Ok(DataType_GeoJson(wgs84))
      [] ty.tag = "Int64" -> Ok(DT("Int64"))
      [] ty.tag = "String" -> Ok(DT("Text"))
      [] ty.tag = "Datetime" -> Ok(DT("TimestampWithoutTimeZone"))
      [] ty.tag = "Struct" -> Ok(DataType_Json)
      [] ty.tag = "Timestamp" -> Ok(DT("TimestampWithTimeZone"))
      [] ty.tag \in {"Bytes", "Time"} ->
            Err("cannot convert " \o BqNonArrayDataType_fmt(ty)
                    \o " to portable type (yet)")

\* A slip: the array around the element type is dropped.
to_data_type_element_only(t) == BqNonArrayDataType_to_data_type(t.ty)

\* A slip: arrays of structs are converted like any other array.
to_data_type_no_collapse(t) ==
    IF t.kind = "Array"
    THEN LET r == BqNonArrayDataType_to_data_type(t.ty)
         IN  IF r.ok THEN Ok(DataType_Array(r.val)) ELSE r
    ELSE BqNonArrayDataType_to_data_type(t.ty)

BqDataType_to_data_type(t) ==
    IF t.kind = "Array" /\ t.ty.tag = "Struct" THEN Ok(DataType_Json)
    ELSE IF t.kind = "Array"
    THEN LET r == BqNonArrayDataType_to_data_type(t.ty)
         IN  IF r.ok THEN Ok(DataType_Array(r.val)) ELSE r
    ELSE BqNonArrayDataType_to_data_type(t.ty)

-----------------------------------------------------------------------------
(* BqNonArrayDataType::is_json_safe and BqDataType::is_json_safe. *)

\* let mut names = HashSet::new(), inside the loop over the fields.
new_names == {}

RECURSIVE BqDataType_is_json_safe(_)
RECURSIVE BqNonArrayDataType_is_json_safe(_)
RECURSIVE is_json_safe_fields(_, _)

\* The loop over the fields, from field i on.
is_json_safe_fields(fields, i) ==
    IF i > Len(fields) THEN TRUE
    ELSE LET field == fields[i]
             names == new_names
         IN  IF field.name # None
             THEN LET name == field.name[1]
                      inserted == name \notin names
                  IN  IF ~inserted \/ ~BqDataType_is_json_safe(field.ty)
                      THEN FALSE
                      ELSE is_json_safe_fields(fields, i + 1)
             ELSE FALSE

BqNonArrayDataType_is_json_safe(ty) ==
    IF ty.tag = "Struct" THEN is_json_safe_fields(ty.fields, 1) ELSE TRUE

BqDataType_is_json_safe(t) == BqNonArrayDataType_is_json_safe(t.ty)

-----------------------------------------------------------------------------
(* BqRecordOrNonArrayDataType and the columns of a BigQuery schema. *)

Record == [rec |-> "Record"]
RecordOrDataType(ty) == [rec |-> "DataType", ty |-> ty]
Mode == {"Nullable", "Required", "Repeated"}
BqColumn(name, ty, mode, fields) ==
    [name |-> name, ty |-> ty, mode |-> mode, fields |-> fields]

RECURSIVE to_bq_data_type(_, _, _)
RECURSIVE to_bq_non_array_data_type(_, _)
RECURSIVE to_struct_field(_)
RECURSIVE collect_struct_fields(_, _)

\* BqColumn::to_struct_field: the column's name and its BqDataType.
to_struct_field(col) ==
    LET ty == to_bq_data_type(col.ty, col.mode, col.fields)
    IN  IF ty.ok THEN Ok(BqStructField(Some(col.name), ty.val)) ELSE ty

\* fields.iter().map(|f| f.to_struct_field()).collect::<Result<Vec<_>>>()
collect_struct_fields(fields, i) ==
    IF i > Len(fields) THEN Ok(<<>>)
    ELSE LET f == to_struct_field(fields[i])
         IN  IF ~f.ok THEN f
             ELSE LET rest == collect_struct_fields(fields, i + 1)
                  IN  IF rest.ok THEN Ok(<<f.val>> \o rest.val) ELSE rest

to_bq_non_array_data_type(self, fields) ==
    IF self = Record
    THEN LET fs == collect_struct_fields(fields, 1)
         IN  IF fs.ok THEN Ok(BqStruct(fs.val)) ELSE fs
    ELSE Ok(self.ty)

to_bq_data_type(self, mode, fields) ==
    LET ty == to_bq_non_array_data_type(self, fields)
    IN  IF ~ty.ok THEN ty
        ELSE IF mode = "Repeated" THEN Ok(BqArray(ty.val))
        ELSE Ok(BqNonArray(ty.val))

\* Columns that occur as the fields of an input column.
FieldColumns ==
    {BqColumn(n, t, m, <<>>) :
        n \in {"x", "y"},
        t \in {Record, RecordOrDataType(NA("Int64")), RecordOrDataType(NA("Bytes"))},
        m \in Mode}
      \cup {BqColumn("x", Record, "Repeated",
                     <<BqColumn("y", RecordOrDataType(NA("Int64")), "Repeated", <<>>)>>),
            BqColumn("x", Record, "Nullable",
                     <<BqColumn("y", Record, "Repeated", <<>>)>>)}

ColumnLists == UNION {[1..n -> FieldColumns] : n \in 0..MaxColumns}

Columns ==
    {BqColumn("c", t, m, fs) :
        t \in {Record, RecordOrDataType(NA("Int64")),
                RecordOrDataType(
                    BqStruct(<<BqStructField(None, BqArray(NA("String")))>>))},
        m \in Mode,
        fs \in ColumnLists}

-----------------------------------------------------------------------------
(* bigquery_can_import_from_csv, on BqDataType and on the portable DataType. *)

BqDataType_bigquery_can_import_from_csv(t) ==
    IF t.kind = "Array" THEN TRUE ELSE FALSE

DataType_bigquery_can_import_from_csv(dt) ==
    LET bq_data_type == BqDataType_for_data_type(dt, "FinalTable")
    IN  IF bq_data_type.ok
        THEN Ok(BqDataType_bigquery_can_import_from_csv(bq_data_type.val))
        ELSE bq_data_type

-----------------------------------------------------------------------------
(* The conversion pipeline: one action per operation of the API. *)

NotCalled == Err("not called")

ForDataType ==
    /\ "for_data_type" \notin done
    /\ bq = NotCalled
    /\ bq' = BqDataType_for_data_type(data_type, usage)
    /\ done' = done \cup {"for_data_type"}
    /\ UNCHANGED <<data_type, usage, portable, printed, json_safe, can_import,
                   column>>

ToDataType ==
    /\ bq.ok
    /\ "to_data_type" \notin done
    /\ portable' = BqDataType_to_data_type(bq.val)
    /\ done' = done \cup {"to_data_type"}
    /\ UNCHANGED <<data_type, usage, bq, printed, json_safe, can_import, column>>

Display ==
    /\ bq.ok
    /\ "fmt" \notin done
    /\ printed' = BqDataType_fmt(bq.val)
    /\ done' = done \cup {"fmt"}
    /\ UNCHANGED <<data_type, usage, bq, portable, json_safe, can_import, column>>

IsJsonSafe ==
    /\ bq.ok
    /\ "is_json_safe" \notin done
    /\ json_safe' = BqDataType_is_json_safe(bq.val)
    /\ done' = done \cup {"is_json_safe"}
    /\ UNCHANGED <<data_type, usage, bq, portable, printed, can_import, column>>

CanImportFromCsv ==
    /\ bq = NotCalled \/ "for_data_type" \in done
    /\ "bigquery_can_import_from_csv" \notin done
    /\ can_import' = DataType_bigquery_can_import_from_csv(data_type)
    /\ done' = done \cup {"bigquery_can_import_from_csv"}
    /\ UNCHANGED <<data_type, usage, bq, portable, printed, json_safe, column>>

ToBqDataType ==
    /\ column # None
    /\ "to_bq_data_type" \notin done
    /\ bq' = to_bq_data_type(column.ty, column.mode, column.fields)
    /\ done' = done \cup {"to_bq_data_type"}
    /\ UNCHANGED <<data_type, usage, portable, printed, json_safe, can_import,
                   column>>

TypeIdle ==
    /\ data_type = DT("Text")
    /\ usage = "FinalTable"
    /\ bq = Err("no input")
    /\ portable = NotCalled
    /\ printed = ""
    /\ json_safe = FALSE
    /\ done = {}
    /\ can_import = NotCalled
    /\ column = None

\* A portable type and a usage, not yet converted.
InitPortable ==
    /\ data_type \in DataTypes
    /\ usage \in Usage
    /\ bq = NotCalled
    /\ portable = NotCalled
    /\ printed = ""
    /\ json_safe = FALSE
    /\ done = {}
    /\ can_import = NotCalled
    /\ column = None

\* A BigQuery type as a schema file gives it.
InitNative ==
    /\ data_type = DT("Text")
    /\ usage = "FinalTable"
    /\ bq \in {Ok(t) : t \in BqDataTypes}
    /\ portable = NotCalled
    /\ printed = ""
    /\ json_safe = FALSE
    /\ done = {}
    /\ can_import = NotCalled
    /\ column = None

\* A column of a BigQuery schema file, its type not yet built.
InitColumn ==
    /\ data_type = DT("Text")
    /\ usage = "FinalTable"
    /\ bq = Err("no input")
    /\ portable = NotCalled
    /\ printed = ""
    /\ json_safe = FALSE
    /\ done = {}
    /\ can_import = NotCalled
    /\ column \in Columns

-----------------------------------------------------------------------------
(* Redshift: write_local_data_helper. *)

\* An error as the caller sees it: its kind and the locations its message names.
Error(kind, mentions) == Err([kind |-> kind, mentions |-> mentions])

\* s3_temp.to_string()
s3_temp == "s3://bucket/temp/"

RedshiftInputs ==
    [shared_ok : BOOLEAN,       \* shared_args pass verify(RedshiftLocator::features())
     dest_ok : BOOLEAN,         \* dest_args pass verify(RedshiftLocator::features())
     temp_ok : BOOLEAN,         \* --temporary names an s3:// location
     max_streams : 1..MaxStreams,
     n_streams : 0..MaxInputs]  \* the CsvStreams of `data`

RedshiftIdle ==
    /\ rpc = "idle"
    /\ rin = [shared_ok |-> TRUE, dest_ok |-> TRUE, temp_ok |-> TRUE,
              max_streams |-> 1, n_streams |-> 0]
    /\ shared_args_v = FALSE
    /\ dest_args_v = FALSE
    /\ s3_invoked = FALSE
    /\ started = {}
    /\ finished = {}
    /\ remote_calls = 0
    /\ staged = {}
    /\ rresult = NotCalled

InitRedshift ==
    /\ rpc = "verify_shared"
    /\ rin \in RedshiftInputs
    /\ shared_args_v = FALSE
    /\ dest_args_v = FALSE
    /\ s3_invoked = FALSE
    /\ started = {}
    /\ finished = {}
    /\ remote_calls = 0
    /\ staged = {}
    /\ rresult = NotCalled

\* `?`: the helper returns the callee's error as it is.
RedshiftFail(e) ==
    /\ rpc' = "failed"
    /\ rresult' = e

\* The messages a callee outside this file may fail with.
CalleeErrors(kind) == {Error(kind, m) : m \in SUBSET {s3_temp}}

\* let shared_args_v = shared_args.clone().verify(RedshiftLocator::features())?;
VerifySharedArgs ==
    /\ rpc = "verify_shared"
    /\ IF rin.shared_ok
       THEN /\ shared_args_v' = TRUE
            /\ rpc' = "find_s3_temp_dir"
            /\ UNCHANGED rresult
       ELSE /\ RedshiftFail(Error("ArgumentError", {}))
            /\ UNCHANGED shared_args_v
    /\ UNCHANGED <<rin, dest_args_v, s3_invoked, started, finished,
                   remote_calls, staged>>

\* let s3_temp = find_s3_temp_dir(shared_args_v.temporary_storage())?;
FindS3TempDir ==
    /\ rpc = "find_s3_temp_dir"
    /\ IF rin.temp_ok
       THEN rpc' = "s3_write_local_data" /\ UNCHANGED rresult
       ELSE RedshiftFail(Error("ArgumentError", {}))
    /\ UNCHANGED <<rin, shared_args_v, dest_args_v, s3_invoked, started,
                   finished, remote_calls, staged>>

\* A slip: the uploads are not awaited before the load from s3://.
S3WriteLocalData_not_awaited ==
    /\ rpc = "s3_write_local_data"
    /\ s3_invoked' = TRUE
    /\ \/ rpc' = "write_remote_data" /\ UNCHANGED rresult
       \/ \E e \in CalleeErrors("IoError") : RedshiftFail(e)
    /\ UNCHANGED <<rin, shared_args_v, dest_args_v, started, finished,
                   remote_calls, staged>>

\* s3_temp.write_local_data(to_temp_ctx, data, shared_args.clone(), s3_dest_args).await?
S3WriteLocalData ==
    /\ rpc = "s3_write_local_data"
    /\ s3_invoked' = TRUE
    /\ \/ rpc' = "consume" /\ UNCHANGED rresult
       \/ \E e \in CalleeErrors("IoError") : RedshiftFail(e)
    /\ UNCHANGED <<rin, shared_args_v, dest_args_v, started, finished,
                   remote_calls, staged>>

\* A slip: one completion more than --max-streams allows.
parallelism_plus_one == rin.max_streams + 1

\* The argument of consume_with_parallelism.
parallelism == rin.max_streams

InFlight == started \ finished

\* consume_with_parallelism takes the next completion future off result_stream
\* and starts it, or finds that the stream has failed.
StartUpload ==
    /\ rpc = "consume"
    /\ Cardinality(InFlight) < parallelism
    /\ Cardinality(started) < rin.n_streams
    /\ \/ /\ started' = started \cup {Cardinality(started) + 1}
          /\ UNCHANGED <<rpc, rresult>>
       \/ /\ \E e \in CalleeErrors("IoError") : RedshiftFail(e)
          /\ UNCHANGED started
    /\ UNCHANGED <<rin, shared_args_v, dest_args_v, s3_invoked, finished,
                   remote_calls, staged>>

\* An upload finishes: its object lies under s3_temp.
UploadSucceeds ==
    /\ rpc = "consume"
    /\ \E i \in InFlight :
          /\ finished' = finished \cup {i}
          /\ staged' = staged \cup {i}
    /\ UNCHANGED <<rpc, rin, shared_args_v, dest_args_v, s3_invoked, started,
                   remote_calls, rresult>>

\* An upload fails: consume_with_parallelism fails with its error.
UploadFails ==
    /\ rpc = "consume"
    /\ \E i \in InFlight : finished' = finished \cup {i}
    /\ \E e \in CalleeErrors("IoError") : RedshiftFail(e)
    /\ UNCHANGED <<rin, shared_args_v, dest_args_v, s3_invoked, started,
                   remote_calls, staged>>

\* result_stream is exhausted and every completion has succeeded.
ConsumeDone ==
    /\ rpc = "consume"
    /\ Cardinality(started) = rin.n_streams
    /\ InFlight = {}
    /\ rpc' = "write_remote_data"
    /\ UNCHANGED <<rin, shared_args_v, dest_args_v, s3_invoked, started,
                   finished, remote_calls, staged, rresult>>

\* dest.write_remote_data(from_temp_ctx, s3_temp, shared_args, s3_source_args,
\* dest_args).await?  The callee verifies dest_args, then runs the COPY.
WriteRemoteData ==
    /\ rpc = "write_remote_data"
    /\ remote_calls' = remote_calls + 1
    /\ IF ~rin.dest_ok
       THEN /\ RedshiftFail(Error("ArgumentError", {}))
            /\ UNCHANGED dest_args_v
       ELSE /\ dest_args_v' = TRUE
            /\ \/ rpc' = "return" /\ UNCHANGED rresult
               \/ \E e \in CalleeErrors("RemoteError") : RedshiftFail(e)
    /\ UNCHANGED <<rin, shared_args_v, s3_invoked, started, finished, staged>>

\* Ok(box_stream_once(Ok(fut)))
ReturnStream ==
    /\ rpc = "return"
    /\ rpc' = "done"
    /\ rresult' = Ok("stream of one future of dest")
    /\ UNCHANGED <<rin, shared_args_v, dest_args_v, s3_invoked, started,
                   finished, remote_calls, staged>>

NextRedshift ==
    \/ VerifySharedArgs /\ UNCHANGED <<typeVars, countVars>>
    \/ FindS3TempDir /\ UNCHANGED <<typeVars, countVars>>
    \/ S3WriteLocalData /\ UNCHANGED <<typeVars, countVars>>
    \/ StartUpload /\ UNCHANGED <<typeVars, countVars>>
    \/ UploadSucceeds /\ UNCHANGED <<typeVars, countVars>>
    \/ UploadFails /\ UNCHANGED <<typeVars, countVars>>
    \/ ConsumeDone /\ UNCHANGED <<typeVars, countVars>>
    \/ WriteRemoteData /\ UNCHANGED <<typeVars, countVars>>
    \/ ReturnStream /\ UNCHANGED <<typeVars, countVars>>

-----------------------------------------------------------------------------
(* PostgreSQL: count_helper. *)

\* The counts the database may answer with; a negative one fails cast::usize.
CountValues == {-1, 0, 7}

CountInputs ==
    [shared_ok : BOOLEAN,    \* shared_args pass verify(PostgresLocator::features())
     source_ok : BOOLEAN,    \* source_args pass verify(PostgresLocator::features())
     schema_ok : BOOLEAN,    \* PgCreateTable::from_name_and_columns succeeds
     sql_ok : BOOLEAN,       \* write_count_sql succeeds
     rows : 0..MaxRows,      \* the rows the query answers with
     count : CountValues]    \* the "count" column of the first row

CountIdle ==
    /\ cpc = "idle"
    /\ cin = [shared_ok |-> TRUE, source_ok |-> TRUE, schema_ok |-> TRUE,
              sql_ok |-> TRUE, rows |-> 1, count |-> 0]
    /\ c_shared_v = FALSE
    /\ c_source_v = FALSE
    /\ sql = None
    /\ conn = FALSE
    /\ prepared = FALSE
    /\ executed = FALSE
    /\ cresult = NotCalled

InitCount ==
    /\ cpc = "verify_shared"
    /\ cin \in CountInputs
    /\ c_shared_v = FALSE
    /\ c_source_v = FALSE
    /\ sql = None
    /\ conn = FALSE
    /\ prepared = FALSE
    /\ executed = FALSE
    /\ cresult = NotCalled

CountFail(kind) ==
    /\ cpc' = "failed"
    /\ cresult' = Err(kind)

\* let shared_args = shared_args.verify(PostgresLocator::features())?;
CountVerifyShared ==
    /\ cpc = "verify_shared"
    /\ IF cin.shared_ok
       THEN c_shared_v' = TRUE /\ cpc' = "verify_source" /\ UNCHANGED cresult
       ELSE CountFail("ArgumentError") /\ UNCHANGED c_shared_v
    /\ UNCHANGED <<cin, c_source_v, sql, conn, prepared, executed>>

\* A slip: the result of verifying source_args is not looked at.
CountVerifySource_unchecked ==
    /\ cpc = "verify_source"
    /\ c_source_v' = cin.source_ok
    /\ cpc' = "from_name_and_columns"
    /\ UNCHANGED <<cin, c_shared_v, sql, conn, prepared, executed, cresult>>

\* let source_args = source_args.verify(PostgresLocator::features())?;
CountVerifySource ==
    /\ cpc = "verify_source"
    /\ IF cin.source_ok
       THEN c_source_v' = TRUE /\ cpc' = "from_name_and_columns"
            /\ UNCHANGED cresult
       ELSE CountFail("ArgumentError") /\ UNCHANGED c_source_v
    /\ UNCHANGED <<cin, c_shared_v, sql, conn, prepared, executed>>

\* PgCreateTable::from_name_and_columns(table_name.clone(), &schema.columns)?
FromNameAndColumns ==
    /\ cpc = "from_name_and_columns"
    /\ IF cin.schema_ok
       THEN cpc' = "write_count_sql" /\ UNCHANGED cresult
       ELSE CountFail("Unsupported")
    /\ UNCHANGED <<cin, c_shared_v, c_source_v, sql, conn, prepared, executed>>

\* pg_create_table.write_count_sql(&mut sql_bytes, &source_args)?; from_utf8
WriteCountSql ==
    /\ cpc = "write_count_sql"
    /\ IF cin.sql_ok
       THEN /\ sql' = Some("SELECT COUNT(*) AS count FROM t")
            /\ cpc' = "connect"
            /\ UNCHANGED cresult
       ELSE CountFail("IoError") /\ UNCHANGED sql
    /\ UNCHANGED <<cin, c_shared_v, c_source_v, conn, prepared, executed>>

\* let mut conn = connect(ctx.clone(), url).await?;
Connect ==
    /\ cpc = "connect"
    /\ conn' = TRUE
    /\ \/ cpc' = "prepare" /\ UNCHANGED cresult
       \/ CountFail("IoError")
    /\ UNCHANGED <<cin, c_shared_v, c_source_v, sql, prepared, executed>>

\* let stmt = conn.prepare(&sql).compat().await?;
Prepare ==
    /\ cpc = "prepare"
    /\ prepared' = TRUE
    /\ \/ cpc' = "query" /\ UNCHANGED cresult
       \/ CountFail("RemoteError")
    /\ UNCHANGED <<cin, c_shared_v, c_source_v, sql, conn, executed>>

\* conn.query(&stmt, &[]).collect().compat().await.context(...)?, then the
\* check of rows.len() and the cast of the count.
Query ==
    /\ cpc = "query"
    /\ executed' = TRUE
    /\ \/ CountFail("error running count query")
       \/ /\ cin.rows # 1
          /\ CountFail("expected 1 row of count output")
       \/ /\ cin.rows = 1
          /\ cin.count < 0
          /\ CountFail("count out of range")
       \/ /\ cin.rows = 1
          /\ cin.count >= 0
          /\ cpc' = "done"
          /\ cresult' = Ok(cin.count)
    /\ UNCHANGED <<cin, c_shared_v, c_source_v, sql, conn, prepared>>

NextCount ==
    \/ CountVerifyShared /\ UNCHANGED <<typeVars, redshiftVars>>
    \/ CountVerifySource /\ UNCHANGED <<typeVars, redshiftVars>>
    \/ FromNameAndColumns /\ UNCHANGED <<typeVars, redshiftVars>>
    \/ WriteCountSql /\ UNCHANGED <<typeVars, redshiftVars>>
    \/ Connect /\ UNCHANGED <<typeVars, redshiftVars>>
    \/ Prepare /\ UNCHANGED <<typeVars, redshiftVars>>
    \/ Query /\ UNCHANGED <<typeVars, redshiftVars>>

-----------------------------------------------------------------------------
(* The specifications. *)

NextPortable ==
    \/ ForDataType /\ UNCHANGED <<redshiftVars, countVars>>
    \/ ToDataType /\ UNCHANGED <<redshiftVars, countVars>>
    \/ Display /\ UNCHANGED <<redshiftVars, countVars>>
    \/ IsJsonSafe /\ UNCHANGED <<redshiftVars, countVars>>
    \/ CanImportFromCsv /\ UNCHANGED <<redshiftVars, countVars>>

NextNative ==
    \/ ToDataType /\ UNCHANGED <<redshiftVars, countVars>>
    \/ Display /\ UNCHANGED <<redshiftVars, countVars>>
    \/ IsJsonSafe /\ UNCHANGED <<redshiftVars, countVars>>

\* The operations that hand out a BqDataType, and its printing.
NextEmit ==
    \/ ForDataType /\ UNCHANGED <<redshiftVars, countVars>>
    \/ ToBqDataType /\ UNCHANGED <<redshiftVars, countVars>>
    \/ Display /\ UNCHANGED <<redshiftVars, countVars>>

PortableStart == InitPortable /\ RedshiftIdle /\ CountIdle
NativeStart == InitNative /\ RedshiftIdle /\ CountIdle
RedshiftStart == TypeIdle /\ InitRedshift /\ CountIdle
CountStart == TypeIdle /\ RedshiftIdle /\ InitCount
ColumnStart == InitColumn /\ RedshiftIdle /\ CountIdle
EmitStart == (InitPortable \/ InitColumn) /\ RedshiftIdle /\ CountIdle

\* for_data_type on a portable type, then the operations on its result.
SpecPortable == PortableStart /\ [][NextPortable]_vars

\* The operations on a BigQuery type read from a schema.
SpecNative == NativeStart /\ [][NextNative]_vars

\* One run of the Redshift write_local_data_helper.
SpecRedshift == RedshiftStart /\ [][NextRedshift]_vars

\* One run of the PostgreSQL count_helper.
SpecCount == CountStart /\ [][NextCount]_vars

\* Every BqDataType the translation hands out: from a portable type, or
\* from a column of a schema file.
SpecEmit == EmitStart /\ [][NextEmit]_vars

Init ==
    PortableStart \/ NativeStart \/ RedshiftStart \/ CountStart \/ ColumnStart

Next ==
    \/ NextPortable
    \/ ToBqDataType /\ UNCHANGED <<redshiftVars, countVars>>
    \/ NextRedshift
    \/ NextCount

Spec == Init /\ [][Next]_vars

-----------------------------------------------------------------------------
(* Properties. *)

RECURSIVE ArrayDepth(_)
ArrayDepth(dt) == IF dt.tag = "Array" THEN 1 + ArrayDepth(dt.elem) ELSE 0

RECURSIVE ArrayLeaf(_)
ArrayLeaf(dt) == IF dt.tag = "Array" THEN ArrayLeaf(dt.elem) ELSE dt

RECURSIVE ArrayOf(_, _)
ArrayOf(n, leaf) == IF n = 0 THEN leaf ELSE DataType_Array(ArrayOf(n - 1, leaf))

Converted == "for_data_type" \in done

\* C1: in Redshift write_local_data, s3_temp.write_local_data is invoked only
\* once the shared arguments and the destination arguments have both been
\* verified, and a run whose destination arguments Redshift does not support
\* fails with no staging upload started.
C1_NoUploadBeforeChecks ==
    /\ s3_invoked => (shared_args_v /\ dest_args_v)
    /\ (shared_args_v /\ ~rin.dest_ok) => (~s3_invoked /\ started = {})

\* The definition of json-safe that C2 states: every field has a name, the
\* names of one struct differ, and every field's type is json-safe.
RECURSIVE NamedUniqueSafe(_)
NamedUniqueSafe(ty) ==
    IF ty.tag # "Struct" THEN TRUE
    ELSE /\ \A i \in 1..Len(ty.fields) : ty.fields[i].name # None
         /\ \A i, j \in 1..Len(ty.fields) :
                i # j => ty.fields[i].name # ty.fields[j].name
         /\ \A i \in 1..Len(ty.fields) : NamedUniqueSafe(ty.fields[i].ty.ty)

\* C2: for every struct type, is_json_safe is true exactly when every field
\* has a name, no two fields share a name and every field's type is json-safe.
C2_JsonSafeIffNamedUniqueSafe ==
    ("is_json_safe" \in done /\ bq.val.ty.tag = "Struct")
        => (json_safe <=> NamedUniqueSafe(bq.val.ty))

\* n ARRAY layers around t, each inner array inside a struct of one field
\* that has no name.
RECURSIVE Wrapped(_, _)
Wrapped(n, t) ==
    IF n = 1 THEN BqArray(t)
    ELSE BqArray(BqStruct(<<[name |-> None, ty |-> Wrapped(n - 1, t)]>>))

RECURSIVE WrappedText(_, _)
WrappedText(n, t) ==
    IF n = 1 THEN "ARRAY<" \o t \o ">"
    ELSE "ARRAY<STRUCT<" \o WrappedText(n - 1, t) \o ">>"

\* C3: for n >= 1 and a leaf type T that is neither an array nor Json,
\* for_data_type(Array^n(T), FinalTable) succeeds with n ARRAY layers, each
\* inner array the only, unnamed field of a struct, and prints as
\* ARRAY<STRUCT<ARRAY<...T'...>>>; Array^3(Int32) prints as
\* ARRAY<STRUCT<ARRAY<STRUCT<ARRAY<INT64>>>>>.
C3_NestedArraysAreWrapped ==
    (/\ Converted
     /\ usage = "FinalTable"
     /\ ArrayDepth(data_type) >= 1
     /\ ArrayLeaf(data_type) # DataType_Json)
        => LET n == ArrayDepth(data_type)
               leaf == scalar_for_data_type(ArrayLeaf(data_type))
           IN  /\ bq = Ok(Wrapped(n, leaf))
               /\ "fmt" \in done =>
                    /\ printed = WrappedText(n, BqNonArrayDataType_fmt(leaf))
                    /\ data_type = ArrayOf(3, DT("Int32")) =>
                         printed = "ARRAY<STRUCT<ARRAY<STRUCT<ARRAY<INT64>>>>>"

C3_Witness ==
    /\ Converted
    /\ "fmt" \in done
    /\ usage = "FinalTable"
    /\ data_type = ArrayOf(3, DT("Int32"))
    /\ printed = "ARRAY<STRUCT<ARRAY<STRUCT<ARRAY<INT64>>>>>"

\* C4: for every element type T, for_data_type(Array(T), CsvLoad) succeeds
\* with NonArray(String), which prints as STRING.
C4_CsvLoadArrayIsString ==
    (Converted /\ usage = "CsvLoad" /\ data_type.tag = "Array")
        => /\ bq = Ok(BqNonArray(NA("String")))
           /\ "fmt" \in done => printed = "STRING"

C4_Witness ==
    /\ Converted
    /\ "fmt" \in done
    /\ usage = "CsvLoad"
    /\ data_type = ArrayOf(2, DataType_Json)
    /\ printed = "STRING"

\* The scalars that BigQuery hands back as they went in.
RoundTripScalars ==
    {DT("Bool"), DT("Date"), DT("Decimal"), DT("Float64"),
     DataType_GeoJson(wgs84), DT("Int64"), DT("Text"),
     DT("TimestampWithTimeZone"), DT("TimestampWithoutTimeZone")}

RoundTripped == Converted /\ "to_data_type" \in done

\* C5, as stated: for every p built from the round-trip scalars by any number
\* of Array layers, for_data_type(p, FinalTable) succeeds and to_data_type of
\* its result is p.
C5_RoundTripAnyDepth ==
    (/\ Converted
     /\ usage = "FinalTable"
     /\ ArrayLeaf(data_type) \in RoundTripScalars)
        => /\ bq.ok
           /\ "to_data_type" \in done => portable = Ok(data_type)

\* C5, amended: the round trip returns p for the round-trip scalars and for
\* one Array layer around them; with two or more layers for_data_type still
\* succeeds and to_data_type returns Json.
C5_RoundTripOneLayer ==
    (/\ Converted
     /\ usage = "FinalTable"
     /\ ArrayLeaf(data_type) \in RoundTripScalars)
        => /\ bq.ok
           /\ "to_data_type" \in done =>
                IF ArrayDepth(data_type) <= 1
                THEN portable = Ok(data_type)
                ELSE portable = Ok(DataType_Json)

C5_Witness ==
    /\ RoundTripped
    /\ usage = "FinalTable"
    /\ data_type = DataType_Array(DT("Decimal"))
    /\ portable = Ok(DataType_Array(DT("Decimal")))

\* C6: Array(Json) becomes NonArray(String) for a CSV load and is an error,
\* with no BigQuery type, for the final table; Json alone becomes
\* NonArray(String) under both usages.
C6_ArrayOfJson ==
    Converted =>
        /\ (data_type = DataType_Array(DataType_Json) /\ usage = "CsvLoad")
              => bq = Ok(BqNonArray(NA("String")))
        /\ (data_type = DataType_Array(DataType_Json) /\ usage = "FinalTable")
              => (~bq.ok /\ "val" \notin DOMAIN bq)
        /\ data_type = DataType_Json => bq = Ok(BqNonArray(NA("String")))

C6_Witness ==
    /\ Converted
    /\ data_type = DataType_Array(DataType_Json)
    /\ usage = "FinalTable"
    /\ ~bq.ok

\* C7: BqDataType::to_data_type of Array(Struct(fields)) is Json whatever the
\* fields are; of any other Array(ty) it is Array of ty's portable type, or
\* the error of converting ty.
C7_ArrayOfStructIsJson ==
    ("to_data_type" \in done /\ bq.val.kind = "Array")
        => IF bq.val.ty.tag = "Struct" THEN portable = Ok(DataType_Json)
           ELSE LET elem == BqNonArrayDataType_to_data_type(bq.val.ty)
                IN  IF bq.val.ty.tag \in {"Bytes", "Time"}
                    THEN ~portable.ok /\ portable = elem
                    ELSE portable = Ok(DataType_Array(elem.val))

C7_Witness ==
    /\ "to_data_type" \in done
    /\ bq.val.kind = "Array"
    /\ bq.val.ty.tag = "Struct"
    /\ Len(bq.val.ty.fields) = 2
    /\ bq.val.ty.fields[1].ty = BqNonArray(NA("Bytes"))
    /\ bq.val.ty.fields[2].ty = BqArray(NA("Time"))
    /\ portable = Ok(DataType_Json)

\* C8: while the uploads are awaited, the completion futures started and not
\* yet finished number at most shared_args.max_streams().
C8_InFlightAtMostMaxStreams ==
    Cardinality(InFlight) <= rin.max_streams

C8_Witness ==
    /\ rpc = "consume"
    /\ rin.max_streams = 2
    /\ Cardinality(InFlight) = rin.max_streams
    /\ Cardinality(started) < rin.n_streams
    /\ finished # {}

\* C9: when write_local_data fails after staging has begun (an upload or
\* write_remote_data has failed), what was staged under s3_temp is still
\* there and the error returned names the staging location.
C9_FailureKeepsStagingAndNamesIt ==
    (rpc = "failed" /\ (finished \ staged # {} \/ remote_calls > 0))
        => /\ staged \subseteq finished
           /\ Cardinality(finished \ staged) <= 1
           /\ s3_temp \in rresult.err.mentions

BadCountInput ==
    ~cin.shared_ok \/ ~cin.source_ok \/ ~cin.schema_ok \/ ~cin.sql_ok

\* C10: count_helper opens its connection only once the shared and source
\* arguments are verified and the count SQL exists; when a verification or
\* the schema or SQL generation fails it returns an error with no connection
\* opened and no statement prepared or executed.
C10_ConnectAfterChecks ==
    /\ conn => (c_shared_v /\ c_source_v /\ sql # None)
    /\ BadCountInput => (~conn /\ ~prepared /\ ~executed /\ cpc # "done")
    /\ (BadCountInput /\ cpc = "failed") => ~cresult.ok

C10_Witness ==
    /\ cpc = "prepare"
    /\ conn
    /\ c_shared_v
    /\ c_source_v
    /\ sql # None

\* C13: bigquery_can_import_from_csv is false for every portable type whose
\* FinalTable form is an ARRAY and true for every type whose FinalTable form
\* is not an array; when the FinalTable conversion fails it returns that error.
C13_CanImportIffNotArray ==
    "bigquery_can_import_from_csv" \in done
        => LET final == BqDataType_for_data_type(data_type, "FinalTable")
           IN  IF final.ok
               THEN can_import = Ok(final.val.kind # "Array")
               ELSE ~can_import.ok /\ can_import = final

\* C14: under CsvLoad for_data_type returns a type for every portable type,
\* and no call of BqDataType::for_data_type ends with the error 'should never
\* encounter nested arrays in CSV mode'.
C14_CsvLoadIsTotal ==
    Converted =>
        /\ usage = "CsvLoad" => bq.ok
        /\ ~bq.ok => bq.err # "should never encounter nested arrays in CSV mode"

C14_Witness ==
    /\ Converted
    /\ usage = "CsvLoad"
    /\ data_type = ArrayOf(3, DT("Int32"))
    /\ bq = Ok(BqNonArray(NA("String")))

\* A portable type that has Array(Json) in it, at any depth.
RECURSIVE ContainsArrayOfJson(_)
ContainsArrayOfJson(dt) ==
    /\ dt.tag = "Array"
    /\ dt.elem = DataType_Json \/ ContainsArrayOfJson(dt.elem)

\* C15: under FinalTable, for_data_type fails for every portable type that
\* has Array(Json) in it at any depth, so no BigQuery type it returns holds
\* an ARRAY of the STRING that stands for Json.
C15_NoArrayOfJsonAtAnyDepth ==
    (Converted /\ usage = "FinalTable" /\ ContainsArrayOfJson(data_type))
        => ~bq.ok

\* C12: dest.write_remote_data is called at most once, and only once every
\* upload completion has been started and has succeeded; a run that failed
\* before that returns an error without calling it; the stream of one future
\* is returned only after write_remote_data has succeeded.
C12_RemoteLoadOnceAfterUploads ==
    /\ remote_calls <= 1
    /\ remote_calls > 0 =>
          /\ s3_invoked
          /\ started = 1..rin.n_streams
          /\ finished = started
          /\ staged = finished
    /\ rpc = "failed" => ~rresult.ok
    /\ (rpc = "failed" /\ (started # 1..rin.n_streams \/ staged # started))
          => remote_calls = 0
    /\ rresult.ok => (rpc = "done" /\ remote_calls = 1 /\ dest_args_v)

C12_Witness ==
    /\ rpc = "done"
    /\ rresult.ok
    /\ remote_calls = 1
    /\ rin.n_streams = 3
    /\ staged = 1..3

\* At every ARRAY node of t, and at t itself, the element is a non-array type.
RECURSIVE NoArrayInArray(_)
NoArrayInArray(t) ==
    /\ "tag" \in DOMAIN t.ty
    /\ "kind" \notin DOMAIN t.ty
    /\ t.ty.tag = "Struct" =>
          \A i \in 1..Len(t.ty.fields) : NoArrayInArray(t.ty.fields[i].ty)

Emitted == Converted \/ "to_bq_data_type" \in done

\* C11: no BqDataType returned by BqDataType::for_data_type (any portable
\* type, either usage) or by to_bq_data_type (any mode and fields) has an
\* ARRAY whose element is directly an array; a nested array is only ever the
\* field of a struct.
C11_NoArrayDirectlyInArray ==
    (Emitted /\ bq.ok) => NoArrayInArray(bq.val)

C11_Witness ==
    /\ Converted
    /\ usage = "FinalTable"
    /\ data_type = ArrayOf(2, DT("Int32"))
    /\ bq.ok
    /\ bq.val.kind = "Array"
    /\ bq.val.ty.tag = "Struct"
    /\ bq.val.ty.fields[1].ty.kind = "Array"

====
